---- MODULE Spec2Model ----
(***************************************************************************)
(* Model of nao317/scraper: the sentence-level sentiment aggregation of    *)
(* main.py (get_sentiment_score, analyze_article_sentiment) and the batch  *)
(* runner (process_csv_articles, driven from main's menu option 3).        *)
(*                                                                         *)
(* Scores are fixed-point numbers: one unit is 0.00001, so 1.0 is Scale    *)
(* and the 0.1 threshold is Threshold.  Sums and means are exact.          *)
(*                                                                         *)
(* A text is the list of pieces that str.split on the ideographic full     *)
(* stop returns.  A piece is [len, pad]: len is the number of characters   *)
(* left after str.strip, pad says whether the piece carries surrounding    *)
(* whitespace that strip removes.                                          *)
(***************************************************************************)
EXTENDS Integers, Sequences, FiniteSets, TLC

VARIABLES
    SENTIMENT_ANALYSIS_AVAILABLE, \* the module-level capability flag
    pc,            \* where the running function stands
    article,       \* the article scrape_single_article returned
    outs,          \* the classifier's outcomes during the last analysis
    sentiment,     \* article['sentiment'] after the last analysis
    csv,           \* the manifest file: ok, unreadable, or lacking the columns
    manifest,      \* the rows of the manifest file
    processed,     \* process_csv_articles' counter of rows started
    results,       \* process_csv_articles' list of result rows
    returned,      \* what the caller of process_csv_articles receives
    fetches,       \* per manifest row, how often its url was fetched
    delays,        \* per manifest row, how often time.sleep ran after it
    fieldsRead,    \* the sentiment keys process_csv_articles read for the row
    outcome,       \* per manifest row, the branch its processing ended in
    interruptedAt, \* the step a KeyboardInterrupt arrived in
    args,          \* the arguments of the function called on its own
    ret,           \* what that function returned
    fetched,       \* per url, what fetch_bloomberg_article did
    articles       \* scrape_multiple_articles' list of articles

sent == <<article, outs, sentiment>>
batch == <<csv, manifest, processed, results, returned, fetches, delays,
           fieldsRead, outcome, interruptedAt>>
lib == <<args, ret, fetched, articles>>
vars == <<SENTIMENT_ANALYSIS_AVAILABLE, pc, sent, batch, lib>>

(* ------------------------------ bounds --------------------------------- *)
MaxSegs == 3
MaxEntries == 3
MaxContainers == 3
MaxRows == 3
MaxLinks == 3

(* ------------------------- program constants --------------------------- *)
MinLen == 5
RoundDigits == 4
NumTitleSelectors == 5
NumDateSelectors == 5
MinTitleLen == 5
MinContentLen == 100
MaxWindow == 5

Scale == 10 * 10000
Threshold == Scale \div 10

RECURSIVE Pow10(_)
Pow10(n) == IF n = 0 THEN 1 ELSE 10 * Pow10(n - 1)

(* --------------------------- value domains ----------------------------- *)
SegLens == {0, MinLen, MinLen + 1}
Segs == [len : SegLens, pad : BOOLEAN]
Texts == UNION {[1..n -> Segs] : n \in 1..MaxSegs}

EmptyString == <<[len |-> 0, pad |-> FALSE]>>

\* the two failure sentinels analyze_article_sentiment compares content with
SENTINEL_FAILED == "sentinel_failed"
SENTINEL_MISSING == "sentinel_missing"

Contents ==
    [kind : {"plain", "html"}, text : Texts]
        \cup [kind : {SENTINEL_FAILED, SENTINEL_MISSING}, text : {EmptyString}]

\* what the external classifier does on one sentence: it raises, or it
\* returns the probabilities prob[0], prob[1], prob[2] (here 1-based)
Probs ==
    { <<15000, 5000, 80000>>,
      <<20000, 70000, 10000>>,
      <<50000, 19998, 30002>>,
      <<50000, 30002, 19998>>,
      <<40000, 30000, 30000>> }
ClassifierOutcomes ==
    [ok : {TRUE}, prob : Probs] \cup [ok : {FALSE}, prob : {<<0, 0, 0>>}]

Titles == {"unknown_title", "Headline"}

NoDict == [k \in {} |-> 0]
Get(d, k, default) == IF k \in DOMAIN d THEN d[k] ELSE default

(* ----------------------------- helpers --------------------------------- *)
RECURSIVE SumSeq(_)
SumSeq(s) == IF s = <<>> THEN 0 ELSE Head(s) + SumSeq(Tail(s))

\* sum(1 for s in scores if s > t) and sum(1 for s in scores if s < t)
CountAbove(s, t) == Cardinality({i \in DOMAIN s : s[i] > t})
CountBelow(s, t) == Cardinality({i \in DOMAIN s : s[i] < t})

\* round(x, 4) of the mean sum/n: round half to even, result in score units
Round(sum, n) ==
    LET unit == Scale \div Pow10(RoundDigits)
        d == n * unit
        q == sum \div d
        r == sum % d
        up == \/ 2 * r > d
              \/ 2 * r = d /\ q % 2 = 1
    IN  unit * (IF up THEN q + 1 ELSE q)

(* ----------------------- get_sentiment_score --------------------------- *)
get_sentiment_score(out) ==
    IF ~SENTIMENT_ANALYSIS_AVAILABLE THEN 0
    ELSE IF out.ok THEN out.prob[3] - out.prob[2]
    ELSE 0

(* --------------------- analyze_article_sentiment ----------------------- *)
MSG_NO_CONTENT == "content could not be fetched, cannot analyze"
MSG_NO_TEXT == "no analyzable text found"
MSG_NO_SENTENCES == "could not split into sentences"
MSG_NO_SCORES == "no sentence to analyze found"

Unavailable(msg) == [available |-> FALSE, message |-> msg]

ContentIsFalsy(content) == content.kind = "plain" /\ content.text = EmptyString

\* extract_text_from_html is BeautifulSoup plus regular expressions: the
\* text it yields is the one carried by the html content
extract_text_from_html(content) == content.text

TextContent(content) ==
    IF content.kind = "html" THEN extract_text_from_html(content) ELSE content.text

\* text_content.strip() == "": a single piece with nothing but whitespace
IsBlank(text) == Len(text) = 1 /\ text[1].len = 0

Strip(seg) == [seg EXCEPT !.pad = FALSE]

\* [s.strip() for s in text_content.split('。') if s.strip()]
Split(text) ==
    LET kept == SelectSeq(text, LAMBDA seg : seg.len > 0)
    IN  [i \in DOMAIN kept |-> Strip(kept[i])]

LongEnoughInclusive(sentence) == sentence.len >= MinLen

\* line 127: len(sentence) > 5
LongEnough(sentence) == sentence.len > MinLen

\* the sentences the loop hands to get_sentiment_score
Scored(sentences) == SelectSeq(sentences, LongEnough)

OverallSentiment(sum, n) ==
    IF sum > Threshold * n THEN "positive"
    ELSE IF sum < -Threshold * n THEN "negative"
    ELSE "neutral"

TotalSentencesAll(scores, sentences) == Len(sentences)

TotalSentences(scores, sentences) == Len(scores)

Aggregate(scores, sentences) ==
    LET sum == SumSeq(scores)
        n == Len(scores)
        positive_count == CountAbove(scores, Threshold)
        negative_count == CountBelow(scores, -Threshold)
    IN  [available |-> TRUE,
         average_score |-> Round(sum, n),
         overall_sentiment |-> OverallSentiment(sum, n),
         positive_count |-> positive_count,
         negative_count |-> negative_count,
         neutral_count |-> n - positive_count - negative_count,
         total_sentences |-> TotalSentences(scores, sentences)]

\* the value of article['sentiment'] on return (NoDict: the key is not set);
\* o[i] is the classifier's outcome on the i-th sentence that is scored
analyze_article_sentiment(content, o) ==
    IF ~SENTIMENT_ANALYSIS_AVAILABLE THEN NoDict
    ELSE IF \/ ContentIsFalsy(content)
            \/ content.kind \in {SENTINEL_FAILED, SENTINEL_MISSING}
         THEN Unavailable(MSG_NO_CONTENT)
    ELSE IF IsBlank(TextContent(content)) THEN Unavailable(MSG_NO_TEXT)
    ELSE LET sentences == Split(TextContent(content))
             scores == [i \in DOMAIN Scored(sentences) |-> get_sentiment_score(o[i])]
         IN  IF sentences = <<>> THEN Unavailable(MSG_NO_SENTENCES)
             ELSE IF scores # <<>> THEN Aggregate(scores, sentences)
             ELSE Unavailable(MSG_NO_SCORES)

\* how many classifier calls the analysis of content makes
Calls(content) ==
    IF \/ ~SENTIMENT_ANALYSIS_AVAILABLE
       \/ ContentIsFalsy(content)
       \/ content.kind \in {SENTINEL_FAILED, SENTINEL_MISSING}
       \/ IsBlank(TextContent(content))
    THEN 0
    ELSE Len(Scored(Split(TextContent(content))))

(* ------------- single article: main, menu option 2 --------------------- *)
NoArticle ==
    [none |-> TRUE, content |-> [kind |-> "plain", text |-> EmptyString], title |-> ""]

Pending == [kind |-> "pending", rows |-> <<>>]

NoCall == [fn |-> "none"]

LibIdle ==
    /\ args = NoCall
    /\ ret = NoCall
    /\ fetched = <<>>
    /\ articles = <<>>

BatchIdle ==
    /\ csv = "ok"
    /\ manifest = <<>>
    /\ processed = 0
    /\ results = <<>>
    /\ returned = Pending
    /\ fetches = <<>>
    /\ delays = <<>>
    /\ fieldsRead = {}
    /\ outcome = <<>>
    /\ interruptedAt = "never"

InitSent ==
    /\ SENTIMENT_ANALYSIS_AVAILABLE \in BOOLEAN
    /\ pc = "scrape"
    /\ article = NoArticle
    /\ outs = <<>>
    /\ sentiment = NoDict
    /\ BatchIdle
    /\ LibIdle

\* scrape_single_article returned an article
ScrapeOne ==
    /\ pc = "scrape"
    /\ \E c \in Contents, t \in Titles :
         article' = [none |-> FALSE, content |-> c, title |-> t]
    /\ pc' = "analyze"
    /\ UNCHANGED <<lib, SENTIMENT_ANALYSIS_AVAILABLE, outs, sentiment, batch>>

\* scrape_single_article returned None
ScrapeOneFails ==
    /\ pc = "scrape"
    /\ pc' = "failed"
    /\ UNCHANGED <<lib, SENTIMENT_ANALYSIS_AVAILABLE, sent, batch>>

AnalyzeOne ==
    /\ pc = "analyze"
    /\ \E o \in [1..Calls(article.content) -> ClassifierOutcomes] :
         /\ outs' = o
         /\ sentiment' = analyze_article_sentiment(article.content, o)
    /\ pc' = "analyzed"
    /\ UNCHANGED <<lib, SENTIMENT_ANALYSIS_AVAILABLE, article, batch>>

NextSent == ScrapeOne \/ ScrapeOneFails \/ AnalyzeOne

SpecSent == InitSent /\ [][NextSent]_vars

(* ------------- batch: process_csv_articles, main option 3 -------------- *)
BLOOMBERG_URL == "https://www.bloomberg.co.jp/news/articles/a"
OTHER_URL == "https://example.com/b"
Entries ==
    { [date |-> "2024-01-05", bloomberg_url |-> BLOOMBERG_URL],
      [date |-> "2024-01-06", bloomberg_url |-> OTHER_URL],
      [date |-> "not-a-date", bloomberg_url |-> BLOOMBERG_URL] }
Manifests == UNION {[1..n -> Entries] : n \in 0..MaxEntries}

\* pd.to_datetime: the timestamp of a date string, or a raised ValueError
to_datetime(date_str) ==
    CASE date_str = "2024-01-05" -> [ok |-> TRUE, ts |-> "Timestamp(2024-01-05 00:00:00)"]
      [] date_str = "2024-01-06" -> [ok |-> TRUE, ts |-> "Timestamp(2024-01-06 00:00:00)"]
      [] OTHER -> [ok |-> FALSE, ts |-> "ValueError"]

\* 'bloomberg.com' in url (line 178)
IsBloomberg(url) == url = BLOOMBERG_URL

\* the articles a fetch of a manifest url can yield
Piece(n, p) == [len |-> n, pad |-> p]
BatchContents ==
    { [kind |-> SENTINEL_MISSING, text |-> EmptyString],
      [kind |-> "plain", text |-> <<Piece(MinLen, FALSE), Piece(0, FALSE)>>],
      [kind |-> "plain", text |-> <<Piece(MinLen + 1, FALSE), Piece(0, TRUE)>>],
      [kind |-> "html", text |-> <<Piece(MinLen + 1, TRUE), Piece(MinLen + 1, FALSE)>>] }
BatchOutcomes ==
    { [ok |-> TRUE, prob |-> <<15000, 5000, 80000>>],
      [ok |-> FALSE, prob |-> <<0, 0, 0>>] }

\* what scrape_single_article(url) can return: None, or an article; the
\* generic branch alone produces the missing-content sentinel
ScrapeResults(url) ==
    {NoArticle} \cup
    { [none |-> FALSE, content |-> c, title |-> "Headline"] :
        c \in {b \in BatchContents : ~(IsBloomberg(url) /\ b.kind = SENTINEL_MISSING)} }

ScoreFields ==
    {"average_score", "overall_sentiment", "positive_count", "negative_count",
     "neutral_count", "total_sentences"}

NOT_ANALYZABLE == "not_analyzable"

DataFrame(rows) == [kind |-> "DataFrame", rows |-> rows]

Init ==
    /\ SENTIMENT_ANALYSIS_AVAILABLE \in BOOLEAN
    /\ pc = "read_csv"
    /\ article = NoArticle
    /\ outs = <<>>
    /\ sentiment = NoDict
    /\ csv \in {"ok", "unreadable", "no_columns"}
    /\ manifest \in Manifests
    /\ csv = "unreadable" => manifest = <<>>
    /\ processed = 0
    /\ results = <<>>
    /\ returned = Pending
    /\ fetches = [i \in DOMAIN manifest |-> 0]
    /\ delays = [i \in DOMAIN manifest |-> 0]
    /\ fieldsRead = {}
    /\ outcome = [i \in DOMAIN manifest |-> "pending"]
    /\ interruptedAt = "never"
    /\ LibIdle

\* lines 281-291, and the handler of lines 353-355 when read_csv raises
ReadCsv ==
    /\ pc = "read_csv"
    /\ IF csv = "unreadable"
       THEN pc' = "done" /\ returned' = DataFrame(<<>>)
       ELSE pc' = "loop" /\ UNCHANGED returned
    /\ UNCHANGED <<lib, SENTIMENT_ANALYSIS_AVAILABLE, sent, csv, manifest, processed,
                   results, fetches, delays, fieldsRead, outcome, interruptedAt>>

\* lines 293-299: the next row; row['date'] raises KeyError when the file
\* lacks the column, which the handler of lines 353-355 turns into an empty frame
IterRow ==
    /\ pc = "loop"
    /\ processed < Len(manifest)
    /\ processed' = processed + 1
    /\ IF csv = "no_columns"
       THEN pc' = "done" /\ returned' = DataFrame(<<>>)
       ELSE pc' = "fetch" /\ UNCHANGED returned
    /\ fieldsRead' = {}
    /\ UNCHANGED <<lib, SENTIMENT_ANALYSIS_AVAILABLE, sent, csv, manifest, results,
                   fetches, delays, outcome, interruptedAt>>

AfterFetchRetry(a) == IF a.none /\ fetches[processed] = 0 THEN "fetch" ELSE "process"

\* scrape_single_article is called once per row, whatever it returns

AfterFetch(a) == "process"

\* line 303: scrape_single_article(url), one requests.get
Fetch ==
    /\ pc = "fetch"
    /\ \E a \in ScrapeResults(manifest[processed].bloomberg_url) :
         /\ article' = a
         /\ pc' = AfterFetch(a)
    /\ fetches' = [fetches EXCEPT ![processed] = @ + 1]
    /\ UNCHANGED <<lib, SENTIMENT_ANALYSIS_AVAILABLE, outs, sentiment, csv, manifest,
                   processed, results, returned, delays, fieldsRead, outcome,
                   interruptedAt>>

Row(entry, ts, art, s) ==
    [date |-> ts,
     url |-> entry.bloomberg_url,
     title |-> art.title,
     sentiment_score |-> s.average_score,
     overall_sentiment |-> s.overall_sentiment,
     positive_count |-> s.positive_count,
     negative_count |-> s.negative_count,
     neutral_count |-> s.neutral_count,
     total_sentences |-> s.total_sentences]

\* the literal row of lines 327-337
Placeholder ==
    [average_score |-> 0, overall_sentiment |-> NOT_ANALYZABLE, positive_count |-> 0,
     negative_count |-> 0, neutral_count |-> 0, total_sentences |-> 0]

ContentUsableAny(art) == ~art.none

\* line 305: article and article.get('content') != sentinel
ContentUsable(art) == ~art.none /\ art.content.kind # SENTINEL_MISSING

AppendRowFirst(rows, row) == <<row>> \o rows

\* results.append(...)
AppendRow(rows, row) == Append(rows, row)

KeysReadEager(s, dateOk) ==
    {"available"} \cup ScoreFields \cup
        (IF Get(s, "available", FALSE) THEN {} ELSE {"message"})

\* the keys of sentiment that lines 309-325 read for a record s: the row
\* literal evaluates pd.to_datetime before any sentiment[...]
KeysRead(s, dateOk) ==
    IF Get(s, "available", FALSE)
    THEN {"available"} \cup (IF dateOk THEN ScoreFields ELSE {})
    ELSE {"available", "message"}

AfterRowContinue(raised) == IF raised THEN "loop" ELSE "sleep"

\* lines 342-346: the handler swallows the exception, then time.sleep runs
AfterRow(raised) == "sleep"

\* lines 305-343: the rest of the try block and its handler
Process ==
    /\ pc = "process"
    /\ LET entry == manifest[processed]
           d == to_datetime(entry.date)
       IN  IF ContentUsable(article)
           THEN IF SENTIMENT_ANALYSIS_AVAILABLE
                THEN \E o \in [1..Calls(article.content) -> BatchOutcomes] :
                       LET s == analyze_article_sentiment(article.content, o)
                           ok == Get(s, "available", FALSE)
                       IN  /\ outs' = o
                           /\ sentiment' = s
                           /\ fieldsRead' = KeysRead(s, d.ok)
                           /\ results' =
                                IF ok /\ d.ok
                                THEN AppendRow(results, Row(entry, d.ts, article, s))
                                ELSE results
                           /\ outcome' =
                                [outcome EXCEPT ![processed] =
                                    IF ~ok THEN "unavailable"
                                    ELSE IF d.ok THEN "row" ELSE "raised"]
                           /\ pc' = AfterRow(ok /\ ~d.ok)
                ELSE /\ results' =
                          IF d.ok
                          THEN AppendRow(results, Row(entry, d.ts, article, Placeholder))
                          ELSE results
                     /\ outcome' =
                          [outcome EXCEPT ![processed] = IF d.ok THEN "row" ELSE "raised"]
                     /\ pc' = AfterRow(~d.ok)
                     /\ UNCHANGED <<outs, sentiment, fieldsRead>>
           ELSE /\ outcome' =
                     [outcome EXCEPT ![processed] =
                         IF article.none THEN "fetch_failed" ELSE "content_missing"]
                /\ pc' = AfterRow(FALSE)
                /\ UNCHANGED <<outs, sentiment, fieldsRead, results>>
    /\ UNCHANGED <<lib, SENTIMENT_ANALYSIS_AVAILABLE, article, csv, manifest, processed,
                   returned, fetches, delays, interruptedAt>>

\* line 346: time.sleep(2)
Sleep ==
    /\ pc = "sleep"
    /\ delays' = [delays EXCEPT ![processed] = @ + 1]
    /\ pc' = "loop"
    /\ UNCHANGED <<lib, SENTIMENT_ANALYSIS_AVAILABLE, sent, csv, manifest, processed,
                   results, returned, fetches, fieldsRead, outcome, interruptedAt>>

\* lines 348-351: the loop is over
ReturnResults ==
    /\ pc = "loop"
    /\ processed = Len(manifest)
    /\ returned' = DataFrame(results)
    /\ pc' = "done"
    /\ UNCHANGED <<lib, SENTIMENT_ANALYSIS_AVAILABLE, sent, csv, manifest, processed,
                   results, fetches, delays, fieldsRead, outcome, interruptedAt>>

\* Ctrl-C: KeyboardInterrupt is raised wherever the run stands; it is no
\* Exception, so neither handler of process_csv_articles catches it and
\* main's handler (lines 546-548) ends the program: nothing is returned
Interrupt ==
    /\ pc \in {"read_csv", "loop", "fetch", "process", "sleep"}
    /\ interruptedAt' = pc
    /\ pc' = "interrupted"
    /\ returned' = [kind |-> "nothing", rows |-> <<>>]
    /\ UNCHANGED <<lib, SENTIMENT_ANALYSIS_AVAILABLE, sent, csv, manifest, processed,
                   results, fetches, delays, fieldsRead, outcome>>

Next ==
    \/ ReadCsv
    \/ IterRow
    \/ Fetch
    \/ Process
    \/ Sleep
    \/ ReturnResults
    \/ Interrupt

Spec == Init /\ [][Next]_vars

(* ====================== properties of the aggregation =================== *)
Available == Get(sentiment, "available", FALSE)

\* C1: every sentiment record with available = true has non-negative counts
\* that add up to total_sentences, and total_sentences is at least 1.
C1_CountsSumToTotal ==
    Available =>
        /\ sentiment.positive_count + sentiment.negative_count
              + sentiment.neutral_count = sentiment.total_sentences
        /\ sentiment.positive_count >= 0
        /\ sentiment.negative_count >= 0
        /\ sentiment.neutral_count >= 0
        /\ sentiment.total_sentences >= 1

\* a record with one sentence in each bucket
C1_Witness ==
    /\ pc = "analyzed"
    /\ Available
    /\ sentiment.positive_count = 1
    /\ sentiment.negative_count = 1
    /\ sentiment.neutral_count = 1

\* C2 (as claimed): the stored label is positive iff the stored, rounded
\* average_score is above 0.1, negative iff it is below -0.1, neutral otherwise.
C2_LabelMatchesStoredScore ==
    Available =>
        sentiment.overall_sentiment =
            (IF sentiment.average_score > Threshold THEN "positive"
             ELSE IF sentiment.average_score < -Threshold THEN "negative"
             ELSE "neutral")

\* the scores of the sentences the classifier did not fail on
OkScores(o) ==
    LET ok == SelectSeq(o, LAMBDA x : x.ok)
    IN  [i \in DOMAIN ok |-> ok[i].prob[3] - ok[i].prob[2]]

\* C3 (as claimed): a sentence the classifier fails on is left out of the
\* average, of the three counts and of total_sentences; when it fails on every
\* sentence that passes the length filter the record is available = false.
C3_FailedSentencesExcluded ==
    (pc = "analyzed" /\ SENTIMENT_ANALYSIS_AVAILABLE /\ Calls(article.content) > 0) =>
        LET s == OkScores(outs)
        IN  IF s = <<>> THEN ~Available
            ELSE /\ Available
                 /\ sentiment.total_sentences = Len(s)
                 /\ sentiment.average_score = Round(SumSeq(s), Len(s))
                 /\ sentiment.positive_count = CountAbove(s, Threshold)
                 /\ sentiment.negative_count = CountBelow(s, -Threshold)

\* the number of pieces of a text with at least min characters after trimming
Longer(text, min) == Cardinality({i \in DOMAIN text : text[i].len >= min})

\* the order of the checks of analyze_article_sentiment, with min the length
\* from which a sentence is scored
ChecksInOrder(min) ==
    (pc = "analyzed" /\ SENTIMENT_ANALYSIS_AVAILABLE) =>
        LET c == article.content
            t == TextContent(c)
        IN  IF c.kind \in {SENTINEL_FAILED, SENTINEL_MISSING}
               \/ (c.kind = "plain" /\ Len(t) = 1 /\ t[1] = [len |-> 0, pad |-> FALSE])
            THEN sentiment = Unavailable(MSG_NO_CONTENT)
            ELSE IF Longer(t, 1) = 0
            THEN sentiment =
                   Unavailable(IF Len(t) = 1 THEN MSG_NO_TEXT ELSE MSG_NO_SENTENCES)
            ELSE IF Longer(t, min) = 0
            THEN sentiment = Unavailable(MSG_NO_SCORES)
            ELSE Available /\ sentiment.total_sentences = Longer(t, min)

RowLabels == {"positive", "neutral", "negative"}

\* rows is a subsequence of the manifest: a strictly increasing map from the
\* rows to manifest entries already started, each row carrying its entry's
\* converted date and its url
SubsequenceOfManifest(rows) ==
    \E f \in [DOMAIN rows -> 1..processed] :
        /\ \A i, j \in DOMAIN rows : i < j => f[i] < f[j]
        /\ \A i \in DOMAIN rows :
             /\ to_datetime(manifest[f[i]].date).ok
             /\ rows[i].date = to_datetime(manifest[f[i]].date).ts
             /\ rows[i].url = manifest[f[i]].bloomberg_url
             /\ outcome[f[i]] = "row"

\* C4: the rows collected and the rows returned are a subsequence of the
\* manifest: one entry per row, at most one row per entry, in manifest order.
C4_RowsFollowManifest ==
    /\ SubsequenceOfManifest(results)
    /\ SubsequenceOfManifest(returned.rows)

\* three entries, the second unreachable: rows for the first and the third
C4_Witness ==
    /\ pc = "done"
    /\ Len(manifest) = 3
    /\ outcome = <<"row", "fetch_failed", "row">>
    /\ Len(returned.rows) = 2
    /\ returned.rows[1].url = manifest[1].bloomberg_url
    /\ returned.rows[2].url = manifest[3].bloomberg_url
    /\ manifest[1].bloomberg_url # manifest[3].bloomberg_url

IsPrefix(a, b) == Len(a) <= Len(b) /\ \A i \in DOMAIN a : a[i] = b[i]

\* C5: a failure in one entry stays in that entry: no url is fetched twice,
\* only the entries that ended in a row added one, rows once appended stay,
\* and a run that reaches its end has handled every entry of the manifest and
\* returns all the rows collected.
C5_FailureContained ==
    /\ [](/\ \A i \in DOMAIN manifest : fetches[i] <= 1
          /\ Len(results) = Cardinality({i \in DOMAIN manifest : outcome[i] = "row"})
          /\ (pc = "done" /\ csv = "ok") =>
                /\ \A i \in DOMAIN manifest : fetches[i] = 1 /\ outcome[i] # "pending"
                /\ returned = DataFrame(results))
    /\ [][IsPrefix(results, results')]_vars

\* a finished run over three entries: a row, then a failure, then a row
C5_Witness ==
    /\ pc = "done"
    /\ Len(manifest) = 3
    /\ outcome[1] = "row"
    /\ outcome[2] = "raised"
    /\ outcome[3] = "row"
    /\ Len(returned.rows) = 2

\* C6 (as claimed): an interrupt arrives between two entries only, and the
\* caller then holds exactly the rows of the entries completed so far.
C6_InterruptKeepsCompletedRows ==
    pc = "interrupted" =>
        /\ interruptedAt = "loop"
        /\ returned = DataFrame(results)

\* where the run stands, or stood when it was interrupted
Position == IF pc = "interrupted" THEN interruptedAt ELSE pc

\* the iteration of manifest row i has run to its end
Finished(i) ==
    \/ i < processed
    \/ i = processed /\ csv = "ok" /\ Position \in {"loop", "done"}

\* C7: the pacing delay has run exactly once after every entry whose iteration
\* is over, whatever its outcome, and not at all for the others; so when an
\* entry is fetched exactly one delay lies behind each earlier entry.
C7_OneDelayPerEntry ==
    /\ \A i \in DOMAIN manifest : delays[i] = (IF Finished(i) THEN 1 ELSE 0)
    /\ \A i \in DOMAIN manifest : Finished(i) => outcome[i] # "pending"
    /\ pc = "fetch" => \A i \in 1..(processed - 1) : delays[i] = 1 /\ fetches[i] = 1

\* the third fetch, after an entry that raised and one whose fetch failed
C7_Witness ==
    /\ pc = "fetch"
    /\ processed = 3
    /\ outcome[1] = "raised"
    /\ outcome[2] = "fetch_failed"
    /\ delays[1] = 1
    /\ delays[2] = 1

C9_UnavailableNeverRead ==
    ("available" \in DOMAIN sentiment /\ ~sentiment.available) =>
        /\ sentiment.message # ""
        /\ fieldsRead \cap ScoreFields = {}

\* an entry whose article has no sentence long enough: only the message is read
C9_Witness ==
    /\ pc = "sleep"
    /\ sentiment = Unavailable(MSG_NO_SCORES)
    /\ fieldsRead = {"available", "message"}
    /\ outcome[processed] = "unavailable"

(* ------- field extraction: scrape_single_article and parse_article ------ *)
\* what soup.select_one / soup.find gave for one locator: nothing, or an
\* element with the length of its trimmed text and its datetime attribute
Absent == [present |-> FALSE, len |-> 0, attr |-> "none"]
TitleElems ==
    {Absent} \cup
    [present : {TRUE}, len : {0, MinTitleLen, MinTitleLen + 1}, attr : {"none"}]
DateElems ==
    {Absent} \cup
    [present : {TRUE}, len : {0, 2 * MinTitleLen}, attr : {"none", "empty", "value"}]
ContentElems ==
    {Absent} \cup
    [present : {TRUE},
     len : {0, MinContentLen \div 2, MinContentLen, MinContentLen + 1},
     attr : {"none"}]

\* a field value: the trimmed text of the element of locator src, the value
\* of its datetime attribute, or one of the fixed sentinel strings
Text(i, n) == [kind |-> "text", src |-> i, len |-> n]
Attr(i, n) == [kind |-> "attr", src |-> i, len |-> n]
Sentinel(name) == [kind |-> name, src |-> 0, len |-> 1]
TITLE_UNKNOWN == Sentinel("title_unknown")
DATE_UNKNOWN == Sentinel("date_unknown")
CONTENT_MISSING == Sentinel(SENTINEL_MISSING)
TITLE_NONE == Sentinel("title_none")
DATE_NONE == Sentinel("date_none")

\* lines 190-196 and 205-215 of main.py: keep the text of every element
\* found, stop at the first one longer than min
RECURSIVE KeepLoop(_, _, _, _)
KeepLoop(elems, i, value, min) ==
    IF i > Len(elems) THEN value
    ELSE IF ~elems[i].present THEN KeepLoop(elems, i + 1, value, min)
    ELSE LET t == Text(i, elems[i].len)
         IN  IF t.len > min THEN t ELSE KeepLoop(elems, i + 1, t, min)

generic_title(elems) == KeepLoop(elems, 1, TITLE_UNKNOWN, MinTitleLen)

generic_content(elems) == KeepLoop(elems, 1, CONTENT_MISSING, MinContentLen)

\* line 223: date_elem.get_text(strip=True) or date_elem.get('datetime', sentinel)
DateOf(i, e) ==
    IF e.len > 0 THEN Text(i, e.len)
    ELSE IF e.attr = "none" THEN DATE_UNKNOWN
    ELSE Attr(i, IF e.attr = "empty" THEN 0 ELSE 4 * MinTitleLen)

\* lines 219-225 of main.py
RECURSIVE DateLoop(_, _, _)
DateLoop(elems, i, date) ==
    IF i > Len(elems) THEN date
    ELSE IF ~elems[i].present THEN DateLoop(elems, i + 1, date)
    ELSE LET d == DateOf(i, elems[i])
         IN  IF d # DATE_UNKNOWN THEN d ELSE DateLoop(elems, i + 1, d)

generic_date(elems) == DateLoop(elems, 1, DATE_UNKNOWN)

\* parse_article: the h1 element, or the sentinel
bloomberg_title(elems) ==
    IF elems[1].present THEN Text(1, elems[1].len) ELSE TITLE_NONE

\* parse_article: the time element, else the dated span, or the sentinel
bloomberg_date(elems) ==
    IF elems[1].present THEN Text(1, elems[1].len)
    ELSE IF elems[2].present THEN Text(2, elems[2].len)
    ELSE DATE_NONE

ExtractCalls ==
    [fn : {"generic_title"}, elems : [1..NumTitleSelectors -> TitleElems]]
    \cup [fn : {"generic_date"}, elems : [1..NumDateSelectors -> DateElems]]
    \cup [fn : {"generic_content"},
          elems : UNION {[1..n -> ContentElems] : n \in 0..MaxContainers}]
    \cup [fn : {"bloomberg_title"}, elems : [1..1 -> TitleElems]]
    \cup [fn : {"bloomberg_date"}, elems : [1..2 -> DateElems]]

InitExtract ==
    /\ SENTIMENT_ANALYSIS_AVAILABLE = TRUE
    /\ pc = "extract"
    /\ article = NoArticle
    /\ outs = <<>>
    /\ sentiment = NoDict
    /\ BatchIdle
    /\ args \in ExtractCalls
    /\ ret = NoCall
    /\ fetched = <<>>
    /\ articles = <<>>

Returned(value) == [fn |-> args.fn, value |-> value]

\* scrape_single_article, generic branch: the three fields
ExtractGeneric ==
    /\ pc = "extract"
    /\ args.fn \in {"generic_title", "generic_date", "generic_content"}
    /\ ret' = Returned(CASE args.fn = "generic_title" -> generic_title(args.elems)
                         [] args.fn = "generic_date" -> generic_date(args.elems)
                         [] OTHER -> generic_content(args.elems))
    /\ pc' = "extracted"
    /\ UNCHANGED <<SENTIMENT_ANALYSIS_AVAILABLE, sent, batch, args, fetched, articles>>

\* parse_article: title and date
ExtractBloomberg ==
    /\ pc = "extract"
    /\ args.fn \in {"bloomberg_title", "bloomberg_date"}
    /\ ret' = Returned(IF args.fn = "bloomberg_title"
                       THEN bloomberg_title(args.elems)
                       ELSE bloomberg_date(args.elems))
    /\ pc' = "extracted"
    /\ UNCHANGED <<SENTIMENT_ANALYSIS_AVAILABLE, sent, batch, args, fetched, articles>>

NextExtract == ExtractGeneric \/ ExtractBloomberg

SpecExtract == InitExtract /\ [][NextExtract]_vars

(* ====================== properties of the extraction ==================== *)
Min(S) == CHOOSE x \in S : \A y \in S : x <= y
Max(S) == CHOOSE x \in S : \A y \in S : x >= y

\* the locators whose element has more than n characters of trimmed text
LongerThan(elems, n) == {i \in DOMAIN elems : elems[i].present /\ elems[i].len > n}

Sentinels ==
    {TITLE_UNKNOWN, DATE_UNKNOWN, CONTENT_MISSING, TITLE_NONE, DATE_NONE}

\* C11 (as claimed): the title and the date are the trimmed text of the first
\* locator whose text is non-empty; when no locator has non-empty text the
\* field is its sentinel, never an empty string.
C11_FirstNonEmptyLocatorWins ==
    (pc = "extracted" /\ args.fn \in {"generic_title", "generic_date",
                                       "bloomberg_title", "bloomberg_date"}) =>
        LET S == LongerThan(args.elems, 0)
        IN  IF S # {}
            THEN ret.value = Text(Min(S), args.elems[Min(S)].len)
            ELSE ret.value \in Sentinels

\* C12 (as claimed): the content is the text of the first container with more
\* than 100 characters; failing that the longest non-empty text seen; the
\* sentinel only when no container has non-empty text.
C12_BestContentKept ==
    (pc = "extracted" /\ args.fn = "generic_content") =>
        LET long == LongerThan(args.elems, MinContentLen)
            some == LongerThan(args.elems, 0)
        IN  IF long # {}
            THEN ret.value = Text(Min(long), args.elems[Min(long)].len)
            ELSE IF some # {}
            THEN /\ ret.value.kind = "text"
                 /\ ret.value.len = Max({args.elems[i].len : i \in some})
            ELSE ret.value = CONTENT_MISSING

(* ------------- timeline: create_sentiment_timeline_chart ---------------- *)
\* a result row as the chart reads it: its date (a day number) and its score
TimelineRows == [date : 1..MaxRows, sentiment_score : {-30000, 10000, 20000}]

\* seven days, one article a day, scores 0.2 0.1 -0.3 0.4 0.0 -0.1 0.2
WeekOfScores == <<20000, 10000, -30000, 40000, 0, -10000, 20000>>
WeekFrame == [i \in DOMAIN WeekOfScores |-> [date |-> i, sentiment_score |-> WeekOfScores[i]]]

TimelineFrames == UNION {[1..n -> TimelineRows] : n \in 0..MaxRows} \cup {WeekFrame}

\* df.sort_values('date'): the rows in date order; the default sort is not
\* stable, so rows of one date come in any order
SortValues(df) ==
    LET perms == Permutations(DOMAIN df)
        sorted == {p \in perms : \A i, j \in DOMAIN df : i < j => df[p[i]].date <= df[p[j]].date}
    IN  {[i \in DOMAIN df |-> df[p[i]]] : p \in sorted}

NaN == [defined |-> FALSE, num |-> 0, den |-> 1]
Mean(sum, n) == [defined |-> TRUE, num |-> sum, den |-> n]

RECURSIVE SumRange(_, _, _)
SumRange(x, lo, hi) == IF lo > hi THEN 0 ELSE x[lo] + SumRange(x, lo + 1, hi)

\* Series.rolling(window=w, center=True).mean(): position i holds the mean of
\* the w values ending (w - 1) \div 2 places after i, NaN when they are not all there
RollingMean(x, w) ==
    [i \in DOMAIN x |->
        LET hi == i + ((w - 1) \div 2)
            lo == hi - w + 1
        IN  IF lo >= 1 /\ hi <= Len(x) THEN Mean(SumRange(x, lo, hi), w) ELSE NaN]

WindowSizeByDays(df_sorted) ==
    LET days == Cardinality({df_sorted[i].date : i \in DOMAIN df_sorted})
    IN  IF days < MaxWindow THEN days ELSE MaxWindow

\* line 407: min(5, len(df_sorted))
WindowSize(df_sorted) ==
    IF Len(df_sorted) < MaxWindow THEN Len(df_sorted) ELSE MaxWindow

\* lines 406-409: the sentiment_ma column, absent when the window is below 2
SentimentMa(df_sorted) ==
    IF WindowSize(df_sorted) >= 2
    THEN RollingMean([i \in DOMAIN df_sorted |-> df_sorted[i].sentiment_score],
                     WindowSize(df_sorted))
    ELSE <<>>

InitTimeline ==
    /\ SENTIMENT_ANALYSIS_AVAILABLE = TRUE
    /\ pc = "chart"
    /\ article = NoArticle
    /\ outs = <<>>
    /\ sentiment = NoDict
    /\ BatchIdle
    /\ \E df \in TimelineFrames : args = [fn |-> "chart", df |-> df]
    /\ ret = NoCall
    /\ fetched = <<>>
    /\ articles = <<>>

\* lines 361-363: an empty frame is not charted
ChartEmpty ==
    /\ pc = "chart"
    /\ args.df = <<>>
    /\ ret' = [fn |-> "chart", drawn |-> FALSE, df_sorted |-> <<>>,
               window_size |-> 0, sentiment_ma |-> <<>>]
    /\ pc' = "charted"
    /\ UNCHANGED <<SENTIMENT_ANALYSIS_AVAILABLE, sent, batch, args, fetched, articles>>

\* lines 372-416
Chart ==
    /\ pc = "chart"
    /\ args.df # <<>>
    /\ \E df_sorted \in SortValues(args.df) :
         ret' = [fn |-> "chart", drawn |-> TRUE, df_sorted |-> df_sorted,
                 window_size |-> WindowSize(df_sorted),
                 sentiment_ma |-> SentimentMa(df_sorted)]
    /\ pc' = "charted"
    /\ UNCHANGED <<SENTIMENT_ANALYSIS_AVAILABLE, sent, batch, args, fetched, articles>>

NextTimeline == ChartEmpty \/ Chart

SpecTimeline == InitTimeline /\ [][NextTimeline]_vars

(* ====================== properties of the timeline ====================== *)
DatesOf(df) == {df[i].date : i \in DOMAIN df}

\* the distinct dates of df in ascending order
RECURSIVE Ascending(_)
Ascending(S) == IF S = {} THEN <<>> ELSE <<Min(S)>> \o Ascending(S \ {Min(S)})

DaySum(df, d) ==
    LET idx == {i \in DOMAIN df : df[i].date = d}
        RECURSIVE Add(_)
        Add(I) == IF I = {} THEN 0
                  ELSE LET i == CHOOSE i \in I : TRUE
                       IN  df[i].sentiment_score + Add(I \ {i})
    IN  Add(idx)

DayCount(df, d) == Cardinality({i \in DOMAIN df : df[i].date = d})

RECURSIVE Product(_, _)
Product(df, S) ==
    IF S = {} THEN 1
    ELSE LET d == CHOOSE d \in S : TRUE IN DayCount(df, d) * Product(df, S \ {d})

\* the rolling mean of the per-day means, as a fraction: every day's mean
\* sum/count is brought to the common denominator Product(df, all days)
DailyRolling(df, w) ==
    LET days == Ascending(DatesOf(df))
        p == Product(df, DatesOf(df))
        scaled == [k \in DOMAIN days |-> DaySum(df, days[k]) * (p \div DayCount(df, days[k]))]
        r == RollingMean(scaled, w)
    IN  [k \in DOMAIN days |->
            IF r[k].defined THEN Mean(r[k].num, w * p) ELSE NaN]

SameValue(a, b) ==
    /\ a.defined = b.defined
    /\ a.defined => a.num * b.den = b.num * a.den

\* the chart's window and moving average are those of the per-day means
RollingMatches ==
    LET w == WindowSizeByDays(args.df)
        claimed == DailyRolling(args.df, w)
    IN  /\ ret.window_size = w
        /\ w >= 2 =>
             /\ Len(ret.sentiment_ma) = Len(claimed)
             /\ \A k \in DOMAIN claimed : SameValue(ret.sentiment_ma[k], claimed[k])

\* C13 (as claimed): the window is min(5, number of distinct dates) and the
\* moving average is the centered rolling mean of the per-day mean scores, one
\* value per distinct date, undefined where the window is not complete.
C13_RollingOverDailyMeans == (pc = "charted" /\ ret.drawn) => RollingMatches

\* with one article a day rows and days coincide, and the statement holds
OneArticlePerDay ==
    (pc = "charted" /\ ret.drawn /\ Cardinality(DatesOf(args.df)) = Len(args.df))
        => RollingMatches

(* ------------- date_scraper: articles of one date ----------------------- *)
DateArgs == {"2024-01-05", "2024-1-5", "2024-01-06", "20240105"}

\* datetime.strptime(date_str, "%Y-%m-%d"): the date, or a raised ValueError;
\* the directives %m and %d take one or two digits
strptime(date_str) ==
    CASE date_str = "2024-01-05" -> [ok |-> TRUE, year |-> 2024, month |-> 1, day |-> 5]
      [] date_str = "2024-1-5" -> [ok |-> TRUE, year |-> 2024, month |-> 1, day |-> 5]
      [] date_str = "2024-01-06" -> [ok |-> TRUE, year |-> 2024, month |-> 1, day |-> 6]
      [] OTHER -> [ok |-> FALSE, year |-> 0, month |-> 0, day |-> 0]

\* date_obj.strftime("%Y-%m-%d"): zero-padded month and day
strftime(date_obj) ==
    IF date_obj.day = 5 THEN "2024-01-05" ELSE "2024-01-06"

\* an href of the page: relative or absolute on the same host, its section,
\* the date text in its path and the article id
Href(rel, section, date, id) ==
    [rel |-> rel, section |-> section, date |-> date, id |-> id]
Hrefs ==
    { Href(TRUE, "articles", "2024-01-05", "a"),
      Href(FALSE, "articles", "2024-01-05", "a"),
      Href(TRUE, "articles", "2024-01-05", "b"),
      Href(TRUE, "articles", "2024-01-06", "a"),
      Href(TRUE, "videos", "2024-01-05", "a"),
      Href(TRUE, "articles", "2024-1-5", "a") }

\* "/news/articles/" in href
IsArticleLink(href) == href.section = "articles"

\* text in href, for a date text
ContainsDate(href, text) == href.date = text

\* lines 45-48: a relative href gets the host in front
FullUrl(href) == [href EXCEPT !.rel = FALSE]

Range(f) == {f[i] : i \in DOMAIN f}

NotSeenAlways(article_links, full_url) == TRUE

\* line 51: full_url not in article_links
NotSeen(article_links, full_url) == full_url \notin Range(article_links)

\* lines 39-52
RECURSIVE CollectLinks(_, _, _, _)
CollectLinks(links, i, article_links, search_date) ==
    IF i > Len(links) THEN article_links
    ELSE IF /\ IsArticleLink(links[i])
            /\ ContainsDate(links[i], search_date)
            /\ NotSeen(article_links, FullUrl(links[i]))
         THEN CollectLinks(links, i + 1, Append(article_links, FullUrl(links[i])),
                           search_date)
         ELSE CollectLinks(links, i + 1, article_links, search_date)

\* page_ok: requests.get and raise_for_status went through
get_bloomberg_articles_by_date(date_str, page_ok, links) ==
    IF ~strptime(date_str).ok \/ ~page_ok THEN <<>>
    ELSE CollectLinks(links, 1, <<>>, strftime(strptime(date_str)))

\* what fetching and parsing one article url gives: an exception, or a page
FetchOutcomes == {"error", "pageA", "pageB"}

\* lines 64-80: the articles of the urls that did not raise, each with its url
RECURSIVE scrape_multiple_articles(_, _, _)
scrape_multiple_articles(article_urls, got, i) ==
    IF i > Len(article_urls) THEN <<>>
    ELSE (IF got[i] = "error" THEN <<>>
          ELSE <<[page |-> got[i], url |-> article_urls[i]]>>)
         \o scrape_multiple_articles(article_urls, got, i + 1)

InitDate ==
    /\ SENTIMENT_ANALYSIS_AVAILABLE = TRUE
    /\ pc = "list"
    /\ article = NoArticle
    /\ outs = <<>>
    /\ sentiment = NoDict
    /\ BatchIdle
    /\ \E d \in DateArgs, ok \in BOOLEAN,
          links \in UNION {[1..n -> Hrefs] : n \in 0..MaxLinks} :
         args = [fn |-> "by_date", date_str |-> d, page_ok |-> ok, links |-> links]
    /\ ret = NoCall
    /\ fetched = <<>>
    /\ articles = <<>>

ListByDate ==
    /\ pc = "list"
    /\ ret' = [fn |-> "by_date",
               urls |-> get_bloomberg_articles_by_date(args.date_str, args.page_ok,
                                                       args.links)]
    /\ pc' = "listed"
    /\ UNCHANGED <<SENTIMENT_ANALYSIS_AVAILABLE, sent, batch, args, fetched, articles>>

ScrapeMultiple ==
    /\ pc = "listed"
    /\ \E got \in [DOMAIN ret.urls -> FetchOutcomes] :
         /\ fetched' = got
         /\ articles' = scrape_multiple_articles(ret.urls, got, 1)
    /\ pc' = "scraped"
    /\ UNCHANGED <<SENTIMENT_ANALYSIS_AVAILABLE, sent, batch, args, ret>>

NextDate == ListByDate \/ ScrapeMultiple

SpecDate == InitDate /\ [][NextDate]_vars

(* ====================== properties of date_scraper ====================== *)
\* urls come from the page's links in order of first occurrence
FirstOccurrences(urls, links) ==
    \E f \in [DOMAIN urls -> DOMAIN links] :
        /\ \A i, j \in DOMAIN urls : i < j => f[i] < f[j]
        /\ \A i \in DOMAIN urls :
             /\ urls[i] = FullUrl(links[f[i]])
             /\ \A j \in 1..(f[i] - 1) : FullUrl(links[j]) # urls[i]

\* articles are those of the urls that did not raise, in order, with their url
ArticlesOfFetched(arts, urls, got) ==
    LET ok == {i \in DOMAIN urls : got[i] # "error"}
    IN  /\ Len(arts) = Cardinality(ok)
        /\ \A k \in DOMAIN arts :
             \E i \in ok :
                /\ Cardinality({j \in ok : j <= i}) = k
                /\ arts[k].url = urls[i]
                /\ arts[k].page = got[i]

\* the list returned for a date text the urls are to contain
ListedFor(text) ==
    /\ \A i, j \in DOMAIN ret.urls : i # j => ret.urls[i] # ret.urls[j]
    /\ \A i \in DOMAIN ret.urls :
         IsArticleLink(ret.urls[i]) /\ ContainsDate(ret.urls[i], text)
    /\ FirstOccurrences(ret.urls, args.links)
    /\ (~strptime(args.date_str).ok \/ ~args.page_ok) => ret.urls = <<>>
    /\ pc = "scraped" => ArticlesOfFetched(articles, ret.urls, fetched)

\* C14: the list has no duplicate url, follows the order of first occurrence
\* on the page, and every url contains "/news/articles/" and the date asked
\* for, written as the code searches it (zero-padded YYYY-MM-DD); a failure
\* gives the empty list; the articles are those of the urls fetched and
\* parsed, in order, each with its url.
C14_ListOfDateThenArticles ==
    pc \in {"listed", "scraped"} =>
        ListedFor(IF strptime(args.date_str).ok
                  THEN strftime(strptime(args.date_str)) ELSE args.date_str)

\* a date given without padding, a page naming one article twice, one of the
\* two urls found failing to fetch
C14_Witness ==
    /\ pc = "scraped"
    /\ args.date_str = "2024-1-5"
    /\ Len(args.links) = 3
    /\ Len(ret.urls) = 2
    /\ fetched[1] = "error"
    /\ Len(articles) = 1
    /\ articles[1].url = ret.urls[2]

====
